---- MODULE Spec2Model ----
(***************************************************************************)
(* redux-box: per-module reducer construction (dist/reducer.js,            *)
(* getReducer) and store assembly (src/createStore.js, createStore).       *)
(*                                                                         *)
(* Objects live in a heap: a reference is an index into `heap`, so that    *)
(* reference identity (===) and structural equality are different things.  *)
(* The caller's arguments are three modules                                *)
(*   counter {state {n:0},     mutations {INCREMENT: draft.n += 1}}        *)
(*   flag    {state {on:false}, mutations {TOGGLE: draft.on = !draft.on}}  *)
(*   orders  {state {items:[]}, mutations {ADD_ITEM: draft.items.push(x),  *)
(*                                  FAIL: draft.items.push(x); throw,      *)
(*                                  orders__RESET__: draft.items.push(r)}} *)
(* passed in any key order, each with or without a `sagas` array, and a    *)
(* config that may carry sagas, reducers, preloadedState and               *)
(* decorateReducer (no middlewares, no dev tools).                         *)
(***************************************************************************)
EXTENDS Integers, Sequences, FiniteSets, TLC

VARIABLES
    modules,        \* createStore's first argument: its keys, in key order
    moduleSagas,    \* modules[m].sagas, per module
    configSagas,    \* config.sagas
    config,         \* config.reducers and config.preloadedState
    decorators,     \* who supplies a decorateReducer: "config", "flag"
    combinedReducer, \* createStore's combinedReducer, the store's reducer
    decorateCalls,  \* calls of each decorateReducer so far
    lastThrough,    \* decorator-made functions the last dispatch ran
    mutations,      \* modules[m].mutations: the caller's handler-map objects
    heap,           \* state objects: reference -> value
    pc,             \* position inside createStore
    idx,            \* forEach index into moduleNames
    reducerList,    \* createStore's reducerList: key -> reducer closure
    reducerKeys,    \* Object.keys(reducerList), in insertion order
    sagas,          \* createStore's `sagas` array
    rootState,      \* the store's current state: key -> reference
    effectStatus,   \* one status per entry of `sagas` once rootSaga runs
    rootSagaStatus, \* "idle", "running" or "done"
    runCount,       \* calls of sagaMiddleware.run(rootSaga)
    errorLog,       \* number of console.error calls made by rootSaga
    collapsed,      \* an effect routine threw and rootSaga caught it
    sinceCollapse,  \* dispatches that returned after the collapse
    lastAction,     \* type of the last dispatched action
    lastOutcome,    \* "none", "returned" or "raised"
    prevRootState,  \* the store's state handed to the last dispatch
    prevVals,       \* value of each handed-in state object before that call
    lastDrafts,     \* keys whose reducer called produce in the last dispatch
    lastLogged,     \* console.log calls made on the last dispatch's path
    numDispatched,  \* dispatch calls so far
    numInc,         \* INCREMENT dispatches so far
    numToggle,      \* TOGGLE dispatches so far
    numAdd          \* ADD_ITEM dispatches so far

vars == <<modules, moduleSagas, configSagas, config, decorators,
          combinedReducer, decorateCalls, lastThrough, mutations, heap, pc, idx,
          reducerList, reducerKeys, sagas, rootState, effectStatus,
          rootSagaStatus, runCount, errorLog, collapsed, sinceCollapse,
          lastAction,
          lastOutcome, prevRootState, prevVals, lastDrafts, lastLogged,
          numDispatched, numInc, numToggle, numAdd>>

\* Number of dispatch calls explored.
MaxDispatch == 3

ModuleNames == {"counter", "flag", "orders"}

\* The reference that stands for `undefined`.
NoRef == 0

\* An `undefined` element of a JS array.
UndefinedEntry == "undefined"

\* String(undefined), what `undefined + '__RESET__'` starts with.
UndefinedName == "undefined"

\* module.state of each module: the references of the declared objects.
DeclaredState(m) ==
    CASE m = "counter" -> 1
      [] m = "flag"    -> 2
      [] m = "orders"  -> 3

\* The objects that exist before createStore is called: the three declared
\* module states, the default state of the hand-written reducer and the
\* orders sub-state of the preloaded state.
InitialHeap == <<[n |-> 0], [on |-> FALSE], [items |-> <<>>], [n |-> 100],
                 [items |-> <<"p">>]>>

\* A hand-written reducer for config.reducers:
\*   (state = {n: 100}, action) =>
\*     action.type is INCREMENT or FAIL ? {n: state.n + 10} : state
HandWritten == [hand |-> TRUE, initialState |-> 4]

\* config.reducers: absent, or {counter: HandWritten, extra: HandWritten}.
ConfigReducers ==
    {[defined |-> FALSE, keys |-> <<>>, map |-> <<>>],
     [defined |-> TRUE, keys |-> <<"counter", "extra">>,
      map |-> [k \in {"counter", "extra"} |-> HandWritten]]}

\* config.preloadedState: absent, or {orders: {items: ['p']}}.
PreloadedStates ==
    {[defined |-> FALSE, map |-> <<>>],
     [defined |-> TRUE, map |-> ("orders" :> 5)]}

\* module.mutations of each module, as the caller wrote them.
DeclaredMutations(m) ==
    CASE m = "counter" -> ("INCREMENT" :> [kind |-> "inc"])
      [] m = "flag"    -> ("TOGGLE" :> [kind |-> "toggle"])
      [] m = "orders"  -> ("ADD_ITEM" :> [kind |-> "push"])
                          @@ ("FAIL" :> [kind |-> "pushThenThrow"])
                          @@ ("orders__RESET__" :> [kind |-> "callerReset"])

\* The effect routines a module may declare.
DeclaredSagas(m) ==
    CASE m = "counter" -> <<"e1">>
      [] m = "flag"    -> <<"e2">>
      [] m = "orders"  -> <<"e4", "e5">>

GlobalSagas == <<"e3">>

\* The routines that return by themselves; the others are watchers that
\* loop for ever.
OneShot == {"e3"}

ResetKey(name) == name \o "__RESET__"

ActionTypes ==
    {"INCREMENT", "TOGGLE", "ADD_ITEM", "FAIL", "UNKNOWN",
     ResetKey("counter"), ResetKey("orders"), ResetKey(UndefinedName)}

\* The places a decorateReducer can come from: config.decorateReducer and
\* modules.flag.decorateReducer.  Each is reducer => (state, action) =>
\* reducer(state, action), and counts its own calls.
DecoratorOwners == {"config", "flag"}

\* All orders in which the three modules can be the keys of `modules`.
ModuleOrders ==
    {s \in [1..3 -> ModuleNames] : \A i, j \in 1..3 : s[i] = s[j] => i = j}

Optional(list) == {[defined |-> FALSE, list |-> <<>>],
                   [defined |-> TRUE, list |-> list]}

EmptyMap == [k \in {} |-> NoRef]

\* combinedReducer before line 76 assigns it.
NotBuilt == [built |-> FALSE]

\* The calls explored: every key order and every choice of module sagas with
\* a config that carries at most sagas, and every config and decorator
\* choice with the modules in one order or its reverse, none declaring sagas.
InputCase ==
    \/ /\ ~config.reducers.defined
       /\ ~config.preloadedState.defined
       /\ decorators = {}
    \/ /\ modules \in {<<"counter", "flag", "orders">>,
                        <<"orders", "flag", "counter">>}
       /\ \A m \in ModuleNames : ~moduleSagas[m].defined

Init ==
    /\ modules \in ModuleOrders
    /\ moduleSagas \in {f \in [ModuleNames -> UNION {Optional(DeclaredSagas(m)) : m \in ModuleNames}] :
                          \A m \in ModuleNames : f[m] \in Optional(DeclaredSagas(m))}
    /\ configSagas \in Optional(GlobalSagas)
    /\ config \in [reducers : ConfigReducers, preloadedState : PreloadedStates]
    /\ decorators \in SUBSET DecoratorOwners
    /\ InputCase
    /\ combinedReducer = NotBuilt
    /\ decorateCalls = [d \in DecoratorOwners |-> 0]
    /\ lastThrough = {}
    /\ mutations = [m \in ModuleNames |-> DeclaredMutations(m)]
    /\ heap = InitialHeap
    /\ pc = "forEach"
    /\ idx = 1
    /\ reducerList = config.reducers.map
    /\ reducerKeys = config.reducers.keys
    /\ sagas = <<>>
    /\ rootState = EmptyMap
    /\ effectStatus = <<>>
    /\ rootSagaStatus = "idle"
    /\ runCount = 0
    /\ errorLog = 0
    /\ collapsed = FALSE
    /\ sinceCollapse = 0
    /\ lastAction = "none"
    /\ lastOutcome = "none"
    /\ prevRootState = EmptyMap
    /\ prevVals = EmptyMap
    /\ lastDrafts = {}
    /\ lastLogged = 0
    /\ numDispatched = 0
    /\ numInc = 0
    /\ numToggle = 0
    /\ numAdd = 0

(***************************************************************************)
(* dist/reducer.js                                                         *)
(***************************************************************************)

\* The handler getReducer injects: a closure over initialState and name.
ResetHandler(initialState, name) ==
    [kind |-> "reset", initialState |-> initialState, name |-> name]

\* actionList[name + '__RESET__'] = function ... : an assignment into the
\* object the caller passed.
InjectReset(actionList, initialState, name) ==
    (ResetKey(name) :> ResetHandler(initialState, name)) @@ actionList

\* getReducer returns a closure over actionList (by reference: the module
\* that owns the map) and initialState.
GetReducer(owner, initialState, name) ==
    [actionList |-> owner, initialState |-> initialState]

\* method(draft_state, action): the draft after the handler ran, whether the
\* handler threw, and how many console.log calls it made.  The injected
\* handler assigns its own parameter (`state = initialState`), which leaves
\* the draft as it was; that assignment cannot throw, so its catch block
\* and the console.log in it never run.
ApplyHandler(method, draft) ==
    CASE method.kind = "inc" ->
            [draft |-> [draft EXCEPT !.n = @ + 1], threw |-> FALSE,
             logged |-> 0]
      [] method.kind = "toggle" ->
            [draft |-> [draft EXCEPT !.on = ~@], threw |-> FALSE,
             logged |-> 0]
      [] method.kind = "push" ->
            [draft |-> [draft EXCEPT !.items = Append(@, "x")], threw |-> FALSE,
             logged |-> 0]
      [] method.kind = "pushThenThrow" ->
            [draft |-> [draft EXCEPT !.items = Append(@, "x")], threw |-> TRUE,
             logged |-> 0]
      [] method.kind = "callerReset" ->
            [draft |-> [draft EXCEPT !.items = Append(@, "r")], threw |-> FALSE,
             logged |-> 0]
      [] method.kind = "reset" ->
            [draft |-> draft, threw |-> FALSE, logged |-> 0]

\* produce with the recipe applied to the state object itself.
ProduceInPlace(h, state, method) ==
    LET r == ApplyHandler(method, h[state])
    IN  [heap |-> IF r.threw THEN h ELSE [h EXCEPT ![state] = r.draft],
         result |-> state, threw |-> r.threw, logged |-> r.logged]

\* immer's produce(state, recipe) on heap h: the recipe works on a draft;
\* an untouched draft gives back the base reference, a changed one is
\* finalized into a new object, and a throwing recipe propagates.
Produce(h, state, method) ==
    LET r == ApplyHandler(method, h[state])
    IN  IF r.threw
          THEN [heap |-> h, result |-> state, threw |-> TRUE,
                logged |-> r.logged]
        ELSE IF r.draft = h[state]
          THEN [heap |-> h, result |-> state, threw |-> FALSE,
                logged |-> r.logged]
        ELSE [heap |-> Append(h, r.draft), result |-> Len(h) + 1,
              threw |-> FALSE, logged |-> r.logged]

\* The returned reducer with `return initialState` in its else branch.
ReducerReturnsInitial(red, stateArg, type, mu, h) ==
    LET state == IF stateArg = NoRef THEN red.initialState ELSE stateArg
        actionList == mu[red.actionList]
    IN  IF type \in DOMAIN actionList
          THEN Produce(h, state, actionList[type]) @@ [draft |-> TRUE]
          ELSE [heap |-> h, result |-> red.initialState, threw |-> FALSE,
                logged |-> 0, draft |-> FALSE]

\* The returned reducer calling produce whether or not a handler matched.
ReducerDraftsAlways(red, stateArg, type, mu, h) ==
    LET state == IF stateArg = NoRef THEN red.initialState ELSE stateArg
        actionList == mu[red.actionList]
    IN  IF type \in DOMAIN actionList
          THEN Produce(h, state, actionList[type]) @@ [draft |-> TRUE]
          ELSE [heap |-> h, result |-> state, threw |-> FALSE,
                logged |-> 0, draft |-> TRUE]

\* The returned reducer always starting from initialState.
ReducerIgnoresState(red, stateArg, type, mu, h) ==
    LET state == red.initialState
        actionList == mu[red.actionList]
    IN  IF type \in DOMAIN actionList
          THEN Produce(h, state, actionList[type]) @@ [draft |-> TRUE]
          ELSE [heap |-> h, result |-> state, threw |-> FALSE,
                logged |-> 0, draft |-> FALSE]

\* The returned reducer without the default for its state parameter.
ReducerNoDefault(red, stateArg, type, mu, h) ==
    LET state == stateArg
        actionList == mu[red.actionList]
    IN  IF type \in DOMAIN actionList
          THEN Produce(h, state, actionList[type]) @@ [draft |-> TRUE]
          ELSE [heap |-> h, result |-> state, threw |-> FALSE,
                logged |-> 0, draft |-> FALSE]

\* The function getReducer returns, called with (state, {type}) while the
\* handler maps are mu and the heap is h.
Reducer(red, stateArg, type, mu, h) ==
    LET state == IF stateArg = NoRef THEN red.initialState ELSE stateArg
        actionList == mu[red.actionList]
    IN  IF type \in DOMAIN actionList
          THEN Produce(h, state, actionList[type]) @@ [draft |-> TRUE]
          ELSE [heap |-> h, result |-> state, threw |-> FALSE,
                logged |-> 0, draft |-> FALSE]

(***************************************************************************)
(* src/createStore.js                                                      *)
(***************************************************************************)

\* A call of the hand-written reducer.
HandReducer(red, stateArg, type, h) ==
    LET state == IF stateArg = NoRef THEN red.initialState ELSE stateArg
    IN  IF type \in {"INCREMENT", "FAIL"}
          THEN [heap |-> Append(h, [n |-> h[state].n + 10]),
                result |-> Len(h) + 1, threw |-> FALSE, logged |-> 0,
                draft |-> FALSE]
          ELSE [heap |-> h, result |-> state, threw |-> FALSE, logged |-> 0,
                draft |-> FALSE]

\* decorateReducer(reducer) with its result thrown away.
DecorateDropped(owner, reducer) == reducer

\* decorateReducer(reducer): the function the decorator returns.
DecorateReducer(owner, reducer) == [wrapped |-> reducer, by |-> owner]

\* A call of an entry of reducerList: a reducer getReducer built, a
\* hand-written one, or a decorator-made function around one of those.
RECURSIVE CallReducer(_, _, _, _, _)
CallReducer(red, stateArg, type, mu, h) ==
    IF "actionList" \in DOMAIN red
      THEN Reducer(red, stateArg, type, mu, h) @@ [through |-> {}]
    ELSE IF "wrapped" \in DOMAIN red
      THEN LET r == CallReducer(red.wrapped, stateArg, type, mu, h)
           IN  [r EXCEPT !.through = @ \cup {red.by}]
    ELSE HandReducer(red, stateArg, type, h) @@ [through |-> {}]

\* reducerList[key] = reducer with the operands the wrong way round: an
\* entry that is already there stays.
KeepReducer(list, key, reducer) == list @@ (key :> reducer)

\* reducerList[moduleName] = moduleReducer.
SetReducer(list, key, reducer) == (key :> reducer) @@ list

\* Object.keys after an assignment to `key`: a new key goes last, a key that
\* is already there keeps its place.
KeysAfterSet(keys, key) ==
    IF \E i \in 1..Len(keys) : keys[i] = key THEN keys ELSE Append(keys, key)

\* concat with receiver and argument swapped.
ConcatPrepend(arr, arg) ==
    IF arg.defined THEN arg.list \o arr ELSE <<UndefinedEntry>> \o arr

\* Array.prototype.concat: an array argument is spread, anything else
\* (here: undefined) is appended as one element.
Concat(arr, arg) ==
    IF arg.defined THEN arr \o arg.list ELSE Append(arr, UndefinedEntry)

\* The body of moduleNames.forEach, for the module at position idx.
RegisterModule ==
    /\ pc = "forEach"
    /\ idx <= Len(modules)
    /\ LET moduleName == modules[idx]
           hasDecorator == moduleName \in decorators
           built == GetReducer(moduleName, DeclaredState(moduleName),
                               UndefinedName)
           moduleReducer == IF hasDecorator
                            THEN DecorateReducer(moduleName, built)
                            ELSE built
       IN  /\ decorateCalls' = IF hasDecorator
                               THEN [decorateCalls EXCEPT ![moduleName] = @ + 1]
                               ELSE decorateCalls
           /\ sagas' = Concat(sagas, moduleSagas[moduleName])
           /\ mutations' = [mutations EXCEPT ![moduleName] =
                              InjectReset(@, DeclaredState(moduleName),
                                          UndefinedName)]
           /\ reducerList' = SetReducer(reducerList, moduleName, moduleReducer)
           /\ reducerKeys' = KeysAfterSet(reducerKeys, moduleName)
    /\ idx' = idx + 1
    /\ pc' = IF idx = Len(modules) THEN "combine" ELSE "forEach"
    /\ UNCHANGED <<combinedReducer, lastThrough, runCount>>
    /\ UNCHANGED <<modules, moduleSagas, configSagas, config, decorators, heap, rootState,
                   effectStatus, rootSagaStatus, errorLog, collapsed,
                   sinceCollapse, lastAction, lastOutcome, prevRootState,
                   prevVals, lastDrafts, lastLogged, numDispatched, numInc,
                   numToggle, numAdd>>

\* The combined reducer leaving out the keys whose state did not change.
RECURSIVE CombinationDropsUnchanged(_, _, _, _, _, _)
CombinationDropsUnchanged(keys, state, type, mu, h, acc) ==
    IF keys = <<>>
      THEN [heap |-> h, next |-> acc.next, drafts |-> acc.drafts,
            logged |-> acc.logged, through |-> acc.through,
            threw |-> FALSE]
      ELSE LET key == Head(keys)
               prev == IF key \in DOMAIN state THEN state[key] ELSE NoRef
               r == CallReducer(reducerList[key], prev, type, mu, h)
           IN  IF r.threw
                 THEN [heap |-> h, next |-> state,
                       drafts |-> acc.drafts \cup {key},
                       logged |-> acc.logged + r.logged,
                       through |-> acc.through \cup r.through,
                       threw |-> TRUE]
                 ELSE CombinationDropsUnchanged(Tail(keys), state, type, mu,
                        r.heap,
                        [next |-> IF r.result = prev THEN acc.next
                                  ELSE (key :> r.result) @@ acc.next,
                         drafts |-> IF r.draft THEN acc.drafts \cup {key}
                                    ELSE acc.drafts,
                         logged |-> acc.logged + r.logged,
                         through |-> acc.through \cup r.through])

\* The combined reducer handing back what it has built so far when a
\* reducer throws.
RECURSIVE CombinationCommitsPartial(_, _, _, _, _, _)
CombinationCommitsPartial(keys, state, type, mu, h, acc) ==
    IF keys = <<>>
      THEN [heap |-> h, next |-> acc.next, drafts |-> acc.drafts,
            logged |-> acc.logged, through |-> acc.through,
            threw |-> FALSE]
      ELSE LET key == Head(keys)
               prev == IF key \in DOMAIN state THEN state[key] ELSE NoRef
               r == CallReducer(reducerList[key], prev, type, mu, h)
           IN  IF r.threw
                 THEN [heap |-> h, next |-> acc.next @@ state,
                       drafts |-> acc.drafts \cup {key},
                       logged |-> acc.logged + r.logged,
                       through |-> acc.through \cup r.through,
                       threw |-> TRUE]
                 ELSE CombinationCommitsPartial(Tail(keys), state, type, mu,
                        r.heap,
                        [next |-> (key :> r.result) @@ acc.next,
                         drafts |-> IF r.draft THEN acc.drafts \cup {key}
                                    ELSE acc.drafts,
                         logged |-> acc.logged + r.logged,
                         through |-> acc.through \cup r.through])

\* The function combineReducers(reducerList) returns: every key's reducer in
\* key order; the first throw aborts the whole call.
RECURSIVE Combination(_, _, _, _, _, _)
Combination(keys, state, type, mu, h, acc) ==
    IF keys = <<>>
      THEN [heap |-> h, next |-> acc.next, drafts |-> acc.drafts,
            logged |-> acc.logged, through |-> acc.through,
            threw |-> FALSE]
      ELSE LET key == Head(keys)
               prev == IF key \in DOMAIN state THEN state[key] ELSE NoRef
               r == CallReducer(reducerList[key], prev, type, mu, h)
           IN  IF r.threw
                 THEN [heap |-> h, next |-> state,
                       drafts |-> acc.drafts \cup {key},
                       logged |-> acc.logged + r.logged,
                       through |-> acc.through \cup r.through,
                       threw |-> TRUE]
                 ELSE Combination(Tail(keys), state, type, mu, r.heap,
                        [next |-> (key :> r.result) @@ acc.next,
                         drafts |-> IF r.draft THEN acc.drafts \cup {key}
                                    ELSE acc.drafts,
                         logged |-> acc.logged + r.logged,
                         through |-> acc.through \cup r.through])

CombinedReducer(state, type, mu, h) ==
    Combination(reducerKeys, state, type, mu, h,
                [next |-> EmptyMap, drafts |-> {}, logged |-> 0,
                 through |-> {}])

\* The function combineReducers returns, as a value.
Combined == [built |-> TRUE]

\* A call of the store's reducer: the combined reducer, or the function
\* config.decorateReducer made around it.
RECURSIVE CallRoot(_, _, _, _, _)
CallRoot(red, state, type, mu, h) ==
    IF "wrapped" \in DOMAIN red
      THEN LET r == CallRoot(red.wrapped, state, type, mu, h)
           IN  [r EXCEPT !.through = @ \cup {red.by}]
      ELSE CombinedReducer(state, type, mu, h)

\* sagas = config.sagas ? sagas.concat(config.sagas) : sagas, then
\* combineReducers and storeCreator, which runs the root reducer on
\* config.preloadedState || {} with an init action no handler matches.
Combine ==
    /\ pc = "combine"
    /\ sagas' = IF configSagas.defined THEN Concat(sagas, configSagas)
                ELSE sagas
    /\ combinedReducer' = IF "config" \in decorators
                          THEN DecorateReducer("config", Combined)
                          ELSE Combined
    /\ decorateCalls' = IF "config" \in decorators
                        THEN [decorateCalls EXCEPT !["config"] = @ + 1]
                        ELSE decorateCalls
    /\ LET preloadedState == IF config.preloadedState.defined
                             THEN config.preloadedState.map ELSE EmptyMap
           r == CallRoot(combinedReducer', preloadedState, "@@redux/INIT",
                         mutations, heap)
       IN  /\ rootState' = r.next
           /\ heap' = r.heap
    /\ pc' = "run"
    /\ UNCHANGED <<lastThrough, runCount>>
    /\ UNCHANGED <<modules, moduleSagas, configSagas, config, decorators, mutations, idx,
                   reducerList, reducerKeys, effectStatus, rootSagaStatus,
                   errorLog, collapsed, sinceCollapse, lastAction,
                   lastOutcome, prevRootState, prevVals, lastDrafts,
                   lastLogged, numDispatched, numInc, numToggle, numAdd>>

\* all(sagas) chained: only the first entry is started.
StartFirst(list) ==
    [i \in 1..Len(list) |->
        IF list[i] = UndefinedEntry THEN "completed"
        ELSE IF i = 1 THEN "running" ELSE "pending"]

\* `yield all(sagas)` starts every entry; an entry that is not an effect
\* resolves at once.
StartAll(list) ==
    [i \in 1..Len(list) |->
        IF list[i] = UndefinedEntry THEN "completed" ELSE "running"]

\* all() resolves, and rootSaga returns, when every entry has resolved.
AllResolved(status) == \A i \in 1..Len(status) : status[i] = "completed"

\* sagaMiddleware.run(rootSaga).
RunRootSaga ==
    /\ pc = "run"
    /\ effectStatus' = StartAll(sagas)
    /\ rootSagaStatus' = IF AllResolved(effectStatus') THEN "done"
                         ELSE "running"
    /\ runCount' = runCount + 1
    /\ pc' = "ready"
    /\ UNCHANGED <<combinedReducer, decorateCalls, lastThrough>>
    /\ UNCHANGED <<modules, moduleSagas, configSagas, config, decorators, mutations, heap, idx,
                   reducerList, reducerKeys, sagas, rootState, errorLog,
                   collapsed, sinceCollapse, lastAction, lastOutcome,
                   prevRootState, prevVals, lastDrafts, lastLogged,
                   numDispatched, numInc, numToggle, numAdd>>

\* rootSaga without the console.error call.
RootSagaNoCatch(log) == log

\* The catch block of rootSaga: one console.error call.
RootSagaCatch(log) == log + 1

\* Entry i of all() throwing with the other entries left alone.
RejectedAlone(status, i) == [status EXCEPT ![i] = "failed"]

\* Entry i of all() throws: all() cancels the entries still running and
\* rethrows.
AllRejected(status, i) ==
    [j \in 1..Len(status) |->
        IF j = i THEN "failed"
        ELSE IF status[j] = "running" THEN "cancelled"
        ELSE status[j]]

\* Effect routine i throws uncaught: all() rethrows into rootSaga, whose
\* catch logs; rootSaga then returns.
EffectThrows(i) ==
    /\ pc = "ready"
    /\ rootSagaStatus = "running"
    /\ effectStatus[i] = "running"
    /\ effectStatus' = AllRejected(effectStatus, i)
    /\ rootSagaStatus' = "done"
    /\ errorLog' = RootSagaCatch(errorLog)
    /\ collapsed' = TRUE
    /\ UNCHANGED <<combinedReducer, decorateCalls, lastThrough, runCount>>
    /\ UNCHANGED <<modules, moduleSagas, configSagas, config, decorators, mutations, heap, pc,
                   idx, reducerList, reducerKeys, sagas, rootState,
                   sinceCollapse, lastAction, lastOutcome, prevRootState,
                   prevVals, lastDrafts, lastLogged, numDispatched, numInc,
                   numToggle, numAdd>>

\* Effect routine i returns.
EffectCompletes(i) ==
    /\ pc = "ready"
    /\ rootSagaStatus = "running"
    /\ effectStatus[i] = "running"
    /\ sagas[i] \in OneShot
    /\ effectStatus' = [effectStatus EXCEPT ![i] = "completed"]
    /\ rootSagaStatus' = IF AllResolved(effectStatus') THEN "done"
                         ELSE "running"
    /\ UNCHANGED <<combinedReducer, decorateCalls, lastThrough, runCount,
                   errorLog, collapsed>>
    /\ UNCHANGED <<modules, moduleSagas, configSagas, config, decorators,
                   mutations, heap, pc, idx, reducerList, reducerKeys, sagas,
                   rootState, sinceCollapse, lastAction, lastOutcome,
                   prevRootState, prevVals, lastDrafts, lastLogged,
                   numDispatched, numInc, numToggle, numAdd>>

\* store.dispatch({type}): currentState = combinedReducer(currentState,
\* action); a throw leaves currentState as it was and reaches the caller.
Dispatch(type) ==
    /\ pc = "ready"
    /\ numDispatched < MaxDispatch
    /\ LET r == CallRoot(combinedReducer, rootState, type, mutations, heap)
       IN  /\ rootState' = r.next
           /\ lastThrough' = r.through
           /\ heap' = r.heap
           /\ lastOutcome' = IF r.threw THEN "raised" ELSE "returned"
           /\ lastDrafts' = r.drafts
           /\ lastLogged' = r.logged
           /\ sinceCollapse' = IF collapsed /\ ~r.threw
                               THEN sinceCollapse + 1 ELSE sinceCollapse
    /\ lastAction' = type
    /\ prevRootState' = rootState
    /\ prevVals' = [k \in DOMAIN rootState |-> heap[rootState[k]]]
    /\ numDispatched' = numDispatched + 1
    /\ numInc' = IF type = "INCREMENT" THEN numInc + 1 ELSE numInc
    /\ numToggle' = IF type = "TOGGLE" THEN numToggle + 1 ELSE numToggle
    /\ numAdd' = IF type = "ADD_ITEM" THEN numAdd + 1 ELSE numAdd
    /\ UNCHANGED <<combinedReducer, decorateCalls, runCount>>
    /\ UNCHANGED <<modules, moduleSagas, configSagas, config, decorators, mutations, pc, idx,
                   reducerList, reducerKeys, sagas, effectStatus,
                   rootSagaStatus, errorLog, collapsed>>

Next ==
    \/ RegisterModule
    \/ Combine
    \/ RunRootSaga
    \/ \E i \in 1..Len(effectStatus) : EffectThrows(i)
    \/ \E i \in 1..Len(effectStatus) : EffectCompletes(i)
    \/ \E type \in ActionTypes : Dispatch(type)

Spec == Init /\ [][Next]_vars

(***************************************************************************)
(* Properties                                                              *)
(***************************************************************************)

\* createStore has built the store (line 87 is behind it).
Assembled == pc \in {"run", "ready"}

\* getState()[m], by value.
StateOf(m) == heap[rootState[m]]

\* The value module m declared as its state.
DeclaredValue(m) == InitialHeap[DeclaredState(m)]

\* C1: after any dispatches, dispatching {type: 'M__RESET__'} leaves
\* rootState[M] equal to M's declared initial state.
ResetRestoresInitialState ==
    \A m \in ModuleNames :
        (pc = "ready" /\ lastAction = ResetKey(m))
            => (lastOutcome = "returned" /\ StateOf(m) = DeclaredValue(m))

\* C2: when the handler matching action.type throws, the dispatch does not
\* raise, the module's state is the one it had before, and exactly one
\* diagnostic is logged.
HandlerFailureContained ==
    (pc = "ready" /\ lastAction = "FAIL")
        => /\ lastOutcome = "returned"
           /\ rootState["orders"] = prevRootState["orders"]
           /\ lastLogged = 1

\* C3: once module Mi is registered, its handler map carries the injected
\* reset handler under 'Mi__RESET__', and no other module's map has that key.
ResetKeyNamespaced ==
    \A i \in 1..(idx - 1) :
        /\ ResetKey(modules[i]) \in DOMAIN mutations[modules[i]]
        /\ mutations[modules[i]][ResetKey(modules[i])].kind = "reset"
        /\ \A j \in 1..(idx - 1) :
              j # i => ResetKey(modules[i]) \notin DOMAIN mutations[modules[j]]

\* C4: a dispatch leaves every module whose handler map has no entry for
\* action.type with the same state reference; only modules whose maps
\* contain action.type change.
ModuleIsolation ==
    lastOutcome # "none"
        => /\ DOMAIN rootState = DOMAIN prevRootState
           /\ \A m \in ModuleNames :
                 rootState[m] # prevRootState[m]
                     => lastAction \in DOMAIN mutations[m]

ModuleIsolationWitness ==
    /\ lastOutcome = "returned"
    /\ lastAction = "TOGGLE"
    /\ numInc > 0
    /\ rootState["flag"] # prevRootState["flag"]
    /\ rootState["counter"] = prevRootState["counter"]
    /\ rootState["counter"] # DeclaredState("counter")

\* C5: a module reducer called with a defined state and an action type that
\* matches no handler returns the very state it was given and calls produce
\* for no draft.
IdentityOnNoOp ==
    lastOutcome = "returned"
        => \A m \in ModuleNames :
              (prevRootState[m] # NoRef
                 /\ lastAction \notin DOMAIN mutations[m])
                  => /\ rootState[m] = prevRootState[m]
                     /\ m \notin lastDrafts

IdentityOnNoOpWitness ==
    /\ lastOutcome = "returned"
    /\ lastAction = "UNKNOWN"
    /\ numAdd > 0
    /\ lastDrafts = {}
    /\ rootState = prevRootState

\* The reducer createStore builds for module m, before any decorator.
ModuleReducer(m) == GetReducer(m, DeclaredState(m), UndefinedName)

\* C6: the state objects handed to a reducer have the same value after the
\* call as before it, and calling the reducer again with the same
\* (state, action) gives a structurally equal result (or throws again).
ReducerPurity ==
    lastOutcome # "none"
        => /\ \A m \in DOMAIN prevRootState :
                 heap[prevRootState[m]] = prevVals[m]
           /\ lastOutcome = "returned"
                 => \A m \in ModuleNames :
                       LET again == Reducer(ModuleReducer(m), prevRootState[m],
                                            lastAction, mutations, heap)
                       IN  /\ ~again.threw
                           /\ again.heap[again.result] = StateOf(m)
           /\ lastOutcome = "raised"
                 => \E m \in ModuleNames :
                       Reducer(ModuleReducer(m), prevRootState[m], lastAction,
                               mutations, heap).threw

ReducerPurityWitness ==
    /\ lastOutcome = "returned"
    /\ lastAction = "ADD_ITEM"
    /\ numAdd = 2
    /\ prevVals["orders"] = [items |-> <<"x">>]
    /\ StateOf("orders") = [items |-> <<"x", "x">>]
    /\ heap[prevRootState["orders"]] = [items |-> <<"x">>]

\* The declared effect lists of the modules at positions i.. of `modules`,
\* one after the other.
RECURSIVE DeclaredFrom(_)
DeclaredFrom(i) ==
    IF i > Len(modules) THEN <<>>
    ELSE moduleSagas[modules[i]].list \o DeclaredFrom(i + 1)

IsRoutine(e) == e # UndefinedEntry

\* C7: the routines handed to the supervisor are every module's effect list
\* in the key order of `modules`, followed by config.sagas.
EffectAggregationOrder ==
    Assembled
        => SelectSeq(sagas, IsRoutine) = DeclaredFrom(1) \o configSagas.list

EffectAggregationOrderWitness ==
    /\ pc = "ready"
    /\ modules = <<"flag", "orders", "counter">>
    /\ \A m \in ModuleNames : moduleSagas[m].defined
    /\ configSagas.defined
    /\ sagas = <<"e2", "e4", "e5", "e1", "e3">>

\* An item the ADD_ITEM handler pushed.
IsAdded(item) == item = "x"

\* C8: after an effect routine threw uncaught, rootSaga has logged exactly
\* once, no dispatch raised because of it, and the store still applies
\* every dispatched action to the state getState returns.
EffectFailureIsolated ==
    collapsed
        => /\ errorLog = 1
           /\ rootSagaStatus = "done"
           /\ pc = "ready"
           /\ lastOutcome = "raised" => lastAction = "FAIL"
           /\ StateOf("counter").n = numInc
           /\ StateOf("flag").on = (numToggle % 2 = 1)
           /\ Len(SelectSeq(StateOf("orders").items, IsAdded)) = numAdd

EffectFailureIsolatedWitness ==
    /\ collapsed
    /\ sinceCollapse = 2
    /\ numDispatched = 2
    /\ lastAction = "INCREMENT"
    /\ lastOutcome = "returned"
    /\ StateOf("counter").n = 1
    /\ StateOf("flag").on

\* C9: counter.n is the number of INCREMENTs dispatched and flag.on is true
\* exactly when an odd number of TOGGLEs was dispatched.
EndToEndAccumulation ==
    pc = "ready"
        => /\ StateOf("counter") = [n |-> numInc]
           /\ StateOf("flag") = [on |-> (numToggle % 2 = 1)]

EndToEndAccumulationWitness ==
    /\ numInc = 2
    /\ numToggle = 1
    /\ numDispatched = 3
    /\ lastAction = "TOGGLE"
    /\ StateOf("counter") = [n |-> 2]
    /\ StateOf("flag") = [on |-> TRUE]

\* C10: building the reducers and assembling the store leave every module's
\* handler map with the keys and entries the caller declared.
ModuleNeverMutated ==
    \A m \in ModuleNames : mutations[m] = DeclaredMutations(m)

\* The keys of the `modules` argument.
RegisteredNames == {modules[i] : i \in 1..Len(modules)}

\* The keys of config.reducers.
ExtraNames == {config.reducers.keys[i] : i \in 1..Len(config.reducers.keys)}

\* C11 as stated: the key set of the root state is exactly the set of
\* registered module names, also when config.reducers or preloadedState are
\* supplied.
RootKeysAreModuleNames ==
    Assembled => DOMAIN rootState = RegisteredNames

\* C11 amended: the key set of the root state is exactly the key set of
\* reducerList, the registered module names together with the keys of
\* config.reducers, fixed at build time; no dispatch adds or removes a key.
RootKeysAreReducerKeys ==
    Assembled => DOMAIN rootState = RegisteredNames \cup ExtraNames

RootKeysAreReducerKeysWitness ==
    /\ config.reducers.defined
    /\ config.preloadedState.defined
    /\ numDispatched = 2
    /\ lastAction = "UNKNOWN"
    /\ lastOutcome = "returned"
    /\ DOMAIN rootState = {"counter", "extra", "flag", "orders"}

\* C12: once an effect routine threw uncaught no entry of the tree keeps
\* running, rootSaga is done, and sagaMiddleware.run was called exactly once
\* for the store.
SupervisorCollapse ==
    /\ runCount = (IF pc = "ready" THEN 1 ELSE 0)
    /\ collapsed
          => /\ rootSagaStatus = "done"
             /\ \A i \in 1..Len(effectStatus) : effectStatus[i] # "running"

SupervisorCollapseWitness ==
    /\ collapsed
    /\ numDispatched = 2
    /\ runCount = 1
    /\ \E i, j, k \in 1..Len(effectStatus) :
          /\ effectStatus[i] = "failed"
          /\ effectStatus[j] = "cancelled"
          /\ effectStatus[k] = "completed" /\ sagas[k] = "e3"

\* C13: once rootSaga runs every routine of the sequence has been started,
\* whatever the routines before it do, and without an uncaught error rootSaga
\* is done exactly when no routine is still running.
SupervisorFanOut ==
    pc = "ready"
        => /\ Len(effectStatus) = Len(sagas)
           /\ \A i \in 1..Len(effectStatus) : effectStatus[i] # "pending"
           /\ ~collapsed
                 => (rootSagaStatus = "done"
                       <=> \A i \in 1..Len(effectStatus) :
                              effectStatus[i] # "running")

SupervisorFanOutWitness ==
    /\ pc = "ready"
    /\ ~collapsed
    /\ rootSagaStatus = "running"
    /\ Len(sagas) = 5
    /\ effectStatus[5] = "completed"
    /\ \A i \in 1..4 : effectStatus[i] = "running"

\* C14: every dispatched action is applied to all keys of the root state or
\* to none: the hand-written reducer under `extra` and the counter module
\* have both seen every INCREMENT, and a dispatch that raised left every key
\* as it was although `extra` had already handled the action.
AtomicDispatch ==
    pc = "ready"
        => /\ lastOutcome = "raised" => rootState = prevRootState
           /\ "extra" \in DOMAIN rootState
                 => /\ StateOf("extra").n = 100 + 10 * numInc
                    /\ StateOf("counter").n = numInc

AtomicDispatchWitness ==
    /\ pc = "ready"
    /\ "extra" \in DOMAIN rootState
    /\ numInc = 1
    /\ lastAction = "FAIL"
    /\ lastOutcome = "raised"
    /\ StateOf("extra").n = 110
    /\ StateOf("counter").n = 1

\* C15: each decorateReducer is called once while createStore runs and never
\* by a dispatch, and every dispatch runs the function the decorator made.
DecoratorsRunOnce ==
    /\ \A d \in DecoratorOwners : decorateCalls[d] <= 1
    /\ Assembled
          => \A d \in DecoratorOwners :
                decorateCalls[d] = (IF d \in decorators THEN 1 ELSE 0)
    /\ lastOutcome # "none"
          => /\ "config" \in decorators => "config" \in lastThrough
             /\ ("flag" \in decorators /\ lastOutcome = "returned")
                   => "flag" \in lastThrough

DecoratorsRunOnceWitness ==
    /\ decorators = {"config", "flag"}
    /\ numDispatched = 3
    /\ lastOutcome = "returned"
    /\ lastThrough = {"config", "flag"}
    /\ decorateCalls = [d \in DecoratorOwners |-> 1]

\* C16: a module reducer called with undefined state starts from the
\* module's declared initial state, so without preloadedState every
\* rootState[M] is M's declared state object before any dispatch.
InitialStateUsed ==
    (Assembled /\ numDispatched = 0)
        => \A m \in RegisteredNames :
              m \notin DOMAIN config.preloadedState.map
                  => rootState[m] = DeclaredState(m)

InitialStateUsedWitness ==
    /\ pc = "run"
    /\ ~config.preloadedState.defined
    /\ rootState["counter"] = DeclaredState("counter")
    /\ rootState["flag"] = DeclaredState("flag")
    /\ rootState["orders"] = DeclaredState("orders")
    /\ StateOf("orders") = [items |-> <<>>]

\* An item the caller's own orders__RESET__ handler pushed.
IsCallerReset(item) == item = "r"

\* C17: the caller's handler under '<moduleName>__RESET__' is replaced by
\* the injected reset handler and is never invoked by a dispatch.
CallerResetNeverInvoked ==
    pc = "ready"
        => /\ mutations["orders"][ResetKey("orders")].kind = "reset"
           /\ SelectSeq(StateOf("orders").items, IsCallerReset) = <<>>

\* C18: every entry of the sequence handed to the supervisor is a declared
\* routine, and its length is the total number of declared routines.
SagasAreDeclaredRoutines ==
    Assembled
        => /\ \A i \in 1..Len(sagas) : IsRoutine(sagas[i])
           /\ Len(sagas) = Len(DeclaredFrom(1)) + Len(configSagas.list)

\* C19: when config.reducers has a key that is a module name the module's
\* reducer is the one installed under it, and the entries of config.reducers
\* under other keys are kept.
ModuleReducerWins ==
    (pc # "forEach" /\ config.reducers.defined)
        => /\ reducerList["counter"] = ModuleReducer("counter")
           /\ reducerList["extra"] = config.reducers.map["extra"]
           /\ pc = "ready"
                 => /\ StateOf("counter") = [n |-> numInc]
                    /\ StateOf("extra") = [n |-> 100 + 10 * numInc]

ModuleReducerWinsWitness ==
    /\ pc = "ready"
    /\ config.reducers.defined
    /\ numInc = 2
    /\ lastAction = "INCREMENT"
    /\ reducerKeys[1] = "counter"
    /\ StateOf("counter") = [n |-> 2]
    /\ StateOf("extra") = [n |-> 120]

====
